---- MODULE Spec2Model ----
(***************************************************************************)
(* Model of the FluidTradingSimulator React component.                     *)
(*                                                                         *)
(* Two revisions of the component are modelled, selected by `variant`:     *)
(*   "exp"    src/components/fluid-trading-simulator.tsx (exponential      *)
(*            trend price, cash balance history, CSV export)               *)
(*   "linear" src/unnamed/part_000 (price = captured price + noise, no     *)
(*            cash balance history)                                        *)
(*                                                                         *)
(* Number representation.  Prices, the anchor and the micro trade amount   *)
(* are whole dollars.  Shares are counted in 1/Unit of a share and cash in *)
(* 1/Unit of a dollar, so that shares * price is a cash amount and         *)
(* microTradeAmount / price is exact for every price a tick can trade at.  *)
(*                                                                         *)
(* React semantics.  A handler or timer callback reads the state through   *)
(* the closure of the render that created it; a functional updater         *)
(* (setX(prev => ...)) applies to the latest state.  The interval callback *)
(* is created inside startSimulation, so it keeps the values rendered when *)
(* the simulation was started: they are stored with the timer.             *)
(***************************************************************************)
EXTENDS Integers, Sequences, FiniteSets, TLC

VARIABLES
    variant,             \* which revision of the component runs
    anchorPrice,         \* useState(100)
    microTradeAmount,    \* useState(1)
    isRunning,           \* useState(false)
    currentPrice,        \* useState(anchorPrice)
    cashBalance,         \* useState(1000), in 1/Unit dollars
    sharesHeld,          \* useState(0), in 1/Unit shares
    tradeStatus,         \* useState("IDLE")
    priceData,           \* useState([{time: 0, price: anchorPrice}])
    cashBalanceHistory,  \* useState([{time: 0, balance: 1000, ...}]) ("exp" only)
    timerRef,            \* useRef(null): 0 is null, otherwise an interval id
    timers,              \* the live intervals, each with the closure of its callback
    nextId,              \* the id setInterval returns next
    mounted,             \* the component has not been torn down
    tickCount,           \* ticks fired since construction
    last                 \* the operation that led to this state, with what it saw,
                         \* did and produced

vars == <<variant, anchorPrice, microTradeAmount, isRunning, currentPrice,
          cashBalance, sharesHeld, tradeStatus, priceData, cashBalanceHistory,
          timerRef, timers, nextId, mounted, tickCount, last>>

config == <<variant, anchorPrice, microTradeAmount>>

----------------------------------------------------------------------------
(* Bounds of the model *)

MaxTimers == 2       \* setInterval is called at most this often in a behaviour
MaxTicks == 3        \* ticks in a behaviour of Spec
LongTimers == 1      \* setInterval calls in SpecLong
LongTail == 2        \* ticks of SpecLong beyond those that fill the price series
LongHead == 1        \* ticks of SpecLong with free noise before the series is full

(* Program constants *)

MaxPoints == 50
InitialCash == 1000

Variants == {"exp", "linear"}
Anchors == {100, 200}
MicroAmounts == {1, 1000}

Unit == 2 * 99 * 101

Min(a, b) == IF a < b THEN a ELSE b
Abs(a) == IF a < 0 THEN 0 - a ELSE a

----------------------------------------------------------------------------
(* Values *)

InitialPoint(anchor) == [time |-> 0, price |-> anchor]

InitialEvent ==
    [time |-> 0, balance |-> InitialCash * Unit, change |-> 0,
     action |-> "INITIAL", price |-> 0]          \* price 0: the event carries no price

InitialHistory(v) == IF v = "exp" THEN <<InitialEvent>> ELSE <<>>

(* The outcomes of Math.random() that are enumerated: a new price equal to *)
(* the closure's anchor, one percent below it or one percent above it.     *)
PriceGrid(anchor) == {(anchor * k) \div 100 : k \in {99, 100, 101}}

----------------------------------------------------------------------------
(* Price generator *)

(* anchorPrice * Math.pow(1 + growthRate, timeElapsed), in 1/1000 dollars *)
RECURSIVE ExponentialBase(_, _)
ExponentialBase(anchor, timeElapsed) ==
    IF timeElapsed = 0 THEN anchor * 1000
    ELSE (ExponentialBase(anchor, timeElapsed - 1) * 1002) \div 1000

(* newPrice = exponentialBase + randomChange * (exponentialBase * 0.015), *)
(* randomChange in [-1, 1]: every price within the volatility band.       *)
ExpPrices(c) ==
    LET base == ExponentialBase(c.anchorPrice, c.timeElapsed)
        volatility == (base * 15) \div 1000
    IN  {p \in PriceGrid(c.anchorPrice) : Abs(p * 1000 - base) <= volatility}

(* newPrice = currentPrice + randomChange * (anchorPrice * 0.01) *)
LinearPrices(c) ==
    {p \in PriceGrid(c.anchorPrice) :
        Abs(p - c.currentPrice) * 100 <= c.anchorPrice}

NewPrices(v, c) == IF v = "exp" THEN ExpPrices(c) ELSE LinearPrices(c)

----------------------------------------------------------------------------
(* History buffers *)

(* A window that keeps the first MaxPoints points instead of the last ones *)
AppendPoint_KeepsOldest(prevData, newPrice) ==
    LET newData == Append(prevData, [time |-> Len(prevData), price |-> newPrice])
    IN  IF Len(newData) > MaxPoints
        THEN SubSeq(newData, 1, MaxPoints)
        ELSE newData

(* setPriceData updater: append, then keep only the last MaxPoints points *)
AppendPoint(prevData, newPrice) ==
    LET newData == Append(prevData, [time |-> Len(prevData), price |-> newPrice])
    IN  IF Len(newData) > MaxPoints
        THEN SubSeq(newData, Len(newData) - MaxPoints + 1, Len(newData))
        ELSE newData

(* A trade rule whose buy branch also takes the price equal to the anchor *)
Decision_BuysAtAnchor(c, newPrice) ==
    IF newPrice <= c.anchorPrice
    THEN IF c.cashBalance >= c.microTradeAmount * Unit THEN "BUY" ELSE "NONE"
    ELSE IF c.sharesHeld > 0 THEN "SELL" ELSE "NONE"

(* The trade a tick executes, decided on the values the callback closed over: *)
(* "NONE" is a branch that sets nothing, "EQUAL" the final else               *)
Decision(c, newPrice) ==
    IF newPrice < c.anchorPrice
    THEN IF c.cashBalance >= c.microTradeAmount * Unit THEN "BUY" ELSE "NONE"
    ELSE IF newPrice > c.anchorPrice
         THEN IF c.sharesHeld > 0 THEN "SELL" ELSE "NONE"
         ELSE "EQUAL"

(* Shares bought at the anchor price instead of the new price *)
SharesToBuy_AtAnchor(c, newPrice) == (c.microTradeAmount * Unit) \div c.anchorPrice

SharesToBuy(c, newPrice) == (c.microTradeAmount * Unit) \div newPrice

SharesToSell(c, newPrice) ==
    Min(c.sharesHeld, (c.microTradeAmount * Unit) \div newPrice)

(* currentBalance of the setCashBalanceHistory updater: the captured cash *)
(* balance plus the effect of this tick's trade, recomputed              *)
CurrentBalance(c, newPrice) ==
    c.cashBalance
    + (IF newPrice < c.anchorPrice /\ c.cashBalance >= c.microTradeAmount * Unit
       THEN 0 - c.microTradeAmount * Unit ELSE 0)
    + (IF newPrice > c.anchorPrice /\ c.sharesHeld > 0
       THEN SharesToSell(c, newPrice) * newPrice ELSE 0)

(* lastBalance of the updater: prevHistory[prevHistory.length - 1]?.balance || 1000 *)
LastBalance(prevHistory) ==
    LET lastLogged == prevHistory[Len(prevHistory)].balance
    IN  IF lastLogged = 0 THEN InitialCash * Unit ELSE lastLogged

(* An updater that stamps an event with the series length the callback *)
(* closed over instead of the length of the log                        *)
AppendEvent_TimeOfClosure(prevHistory, c, newPrice) ==
    LET lastBalance == LastBalance(prevHistory)
        currentBalance == CurrentBalance(c, newPrice)
    IN  IF currentBalance # lastBalance
        THEN Append(prevHistory,
                    [time |-> c.timeElapsed, balance |-> currentBalance,
                     change |-> currentBalance - lastBalance,
                     action |-> c.tradeStatus, price |-> newPrice])
        ELSE prevHistory

(* setCashBalanceHistory updater *)
AppendEvent(prevHistory, c, newPrice) ==
    LET lastBalance == LastBalance(prevHistory)
        currentBalance == CurrentBalance(c, newPrice)
    IN  IF currentBalance # lastBalance
        THEN Append(prevHistory,
                    [time |-> Len(prevHistory), balance |-> currentBalance,
                     change |-> currentBalance - lastBalance,
                     action |-> c.tradeStatus, price |-> newPrice])
        ELSE prevHistory

----------------------------------------------------------------------------
(* History: what the last operation saw and did *)

Snapshot ==
    [isRunning |-> isRunning, currentPrice |-> currentPrice,
     cashBalance |-> cashBalance, sharesHeld |-> sharesHeld,
     tradeStatus |-> tradeStatus, priceData |-> priceData,
     cashBalanceHistory |-> cashBalanceHistory, timers |-> timers]

NoClosure ==
    [id |-> 0, anchorPrice |-> 0, microTradeAmount |-> 0, cashBalance |-> 0,
     sharesHeld |-> 0, tradeStatus |-> "IDLE", currentPrice |-> 0, timeElapsed |-> 0]

Did(op) ==
    [op |-> op, pre |-> Snapshot, price |-> 0, did |-> "NONE", c |-> NoClosure,
     out |-> <<>>]

(* The values the interval callback created by startSimulation closes over *)
Closure(id) ==
    [id |-> id, anchorPrice |-> anchorPrice, microTradeAmount |-> microTradeAmount,
     cashBalance |-> cashBalance, sharesHeld |-> sharesHeld,
     tradeStatus |-> tradeStatus, currentPrice |-> currentPrice,
     timeElapsed |-> Len(priceData)]

(* clearInterval(timerRef.current) *)
ClearInterval(ts, ref) == {t \in ts : t.id # ref}

----------------------------------------------------------------------------
(* State after construction *)

Init ==
    /\ variant \in Variants
    /\ anchorPrice = 100
    /\ microTradeAmount = 1
    /\ isRunning = FALSE
    /\ currentPrice = anchorPrice
    /\ cashBalance = InitialCash * Unit
    /\ sharesHeld = 0
    /\ tradeStatus = "IDLE"
    /\ priceData = <<InitialPoint(anchorPrice)>>
    /\ cashBalanceHistory = InitialHistory(variant)
    /\ timerRef = 0
    /\ timers = {}
    /\ nextId = 1
    /\ mounted = TRUE
    /\ tickCount = 0
    /\ last = [op |-> "init",
               pre |-> [isRunning |-> FALSE, currentPrice |-> 100,
                        cashBalance |-> InitialCash * Unit, sharesHeld |-> 0,
                        tradeStatus |-> "IDLE", priceData |-> <<InitialPoint(100)>>,
                        cashBalanceHistory |-> InitialHistory(variant), timers |-> {}],
               price |-> 0, did |-> "NONE", c |-> NoClosure, out |-> <<>>]

----------------------------------------------------------------------------
(* Commands *)

(* The [anchorPrice, isRunning] effect: it runs after a render in which one *)
(* of the two changed, and re-baselines when the simulation is not running. *)
Rebaseline(anchor) ==
    /\ currentPrice' = anchor
    /\ priceData' = <<InitialPoint(anchor)>>

(* startSimulation, invoked `calls` times on the handler of one render:     *)
(* every invocation sees isRunning = false, calls setInterval and           *)
(* overwrites timerRef.current.                                             *)
Start(calls) ==
    /\ mounted
    /\ ~isRunning
    /\ isRunning' = TRUE
    /\ timers' = timers \cup {Closure(id) : id \in nextId .. nextId + calls - 1}
    /\ timerRef' = nextId + calls - 1
    /\ nextId' = nextId + calls
    /\ last' = Did(IF calls = 1 THEN "start" ELSE "start2")
    /\ UNCHANGED <<config, currentPrice, cashBalance, sharesHeld, tradeStatus,
                   priceData, cashBalanceHistory, mounted, tickCount>>

StartSimulation ==
    /\ nextId <= MaxTimers
    /\ Start(1)

(* Two invocations of startSimulation before React re-renders *)
StartSimulationTwice ==
    /\ nextId + 1 <= MaxTimers
    /\ Start(2)

(* One firing of the interval callback of timer c with the random price newPrice *)
TickOf(c, newPrice) ==
    LET decision == Decision(c, newPrice)
    IN  /\ last' = [op |-> "tick", pre |-> Snapshot, price |-> newPrice,
                    did |-> decision, c |-> c, out |-> <<>>]
        /\ tickCount' = tickCount + 1
        /\ IF mounted
           THEN /\ currentPrice' = newPrice
                /\ priceData' = AppendPoint(priceData, newPrice)
                /\ CASE decision = "BUY" ->
                            /\ cashBalance' = cashBalance - c.microTradeAmount * Unit
                            /\ sharesHeld' = sharesHeld + SharesToBuy(c, newPrice)
                            /\ tradeStatus' = "BUYING"
                     [] decision = "SELL" ->
                            /\ cashBalance' = cashBalance + SharesToSell(c, newPrice) * newPrice
                            /\ sharesHeld' = sharesHeld - SharesToSell(c, newPrice)
                            /\ tradeStatus' = "SELLING"
                     [] decision = "EQUAL" ->
                            /\ tradeStatus' = "IDLE"
                            /\ UNCHANGED <<cashBalance, sharesHeld>>
                     [] OTHER ->
                            UNCHANGED <<cashBalance, sharesHeld, tradeStatus>>
                /\ cashBalanceHistory' =
                       IF variant = "exp"
                       THEN AppendEvent(cashBalanceHistory, c, newPrice)
                       ELSE cashBalanceHistory
           ELSE \* state updates of a component that was torn down are dropped
                UNCHANGED <<currentPrice, priceData, cashBalance, sharesHeld,
                            tradeStatus, cashBalanceHistory>>
        /\ UNCHANGED <<config, isRunning, timerRef, timers, nextId, mounted>>

Tick ==
    /\ tickCount < MaxTicks
    /\ \E c \in timers : \E newPrice \in NewPrices(variant, c) : TickOf(c, newPrice)

(* pauseSimulation, and the effect that follows the change of isRunning *)
PauseSimulation ==
    /\ mounted
    /\ isRunning
    /\ timers' = ClearInterval(timers, timerRef)
    /\ isRunning' = FALSE
    /\ tradeStatus' = "PAUSED"
    /\ Rebaseline(anchorPrice)
    /\ last' = Did("pause")
    /\ UNCHANGED <<config, cashBalance, sharesHeld, cashBalanceHistory,
                   timerRef, nextId, mounted, tickCount>>

(* A reset that forgets to clear the shares *)
ResetSimulation_KeepsShares ==
    /\ mounted
    /\ timers' = ClearInterval(timers, timerRef)
    /\ isRunning' = FALSE
    /\ currentPrice' = anchorPrice
    /\ cashBalance' = InitialCash * Unit
    /\ tradeStatus' = "IDLE"
    /\ priceData' = <<InitialPoint(anchorPrice)>>
    /\ cashBalanceHistory' = InitialHistory(variant)
    /\ last' = Did("reset")
    /\ UNCHANGED <<config, sharesHeld, timerRef, nextId, mounted, tickCount>>

(* resetSimulation *)
ResetSimulation ==
    /\ mounted
    /\ timers' = ClearInterval(timers, timerRef)
    /\ isRunning' = FALSE
    /\ currentPrice' = anchorPrice
    /\ cashBalance' = InitialCash * Unit
    /\ sharesHeld' = 0
    /\ tradeStatus' = "IDLE"
    /\ priceData' = <<InitialPoint(anchorPrice)>>
    /\ cashBalanceHistory' = InitialHistory(variant)
    /\ last' = Did("reset")
    /\ UNCHANGED <<config, timerRef, nextId, mounted, tickCount>>

(* An anchor price change that is not followed by the re-baselining effect *)
SetAnchorPrice_KeepsChart ==
    /\ mounted
    /\ ~isRunning
    /\ \E a \in Anchors \ {anchorPrice} : anchorPrice' = a
    /\ last' = Did("anchor")
    /\ UNCHANGED <<variant, microTradeAmount, isRunning, currentPrice, cashBalance,
                   sharesHeld, tradeStatus, priceData, cashBalanceHistory, timerRef,
                   timers, nextId, mounted, tickCount>>

(* An anchor price input that is not disabled while running: the effect *)
(* re-baselines only when the simulation is not running                *)
SetAnchorPrice_AlsoRunning ==
    /\ mounted
    /\ \E a \in Anchors \ {anchorPrice} :
          /\ anchorPrice' = a
          /\ IF isRunning
             THEN UNCHANGED <<currentPrice, priceData>>
             ELSE Rebaseline(a)
    /\ last' = Did("anchor")
    /\ UNCHANGED <<variant, microTradeAmount, isRunning, cashBalance, sharesHeld,
                   tradeStatus, cashBalanceHistory, timerRef, timers, nextId, mounted,
                   tickCount>>

(* The anchor price input (disabled while running), and the effect that *)
(* follows the change of anchorPrice                                    *)
SetAnchorPrice ==
    /\ mounted
    /\ ~isRunning
    /\ \E a \in Anchors \ {anchorPrice} :
          /\ anchorPrice' = a
          /\ Rebaseline(a)
    /\ last' = Did("anchor")
    /\ UNCHANGED <<variant, microTradeAmount, isRunning, cashBalance, sharesHeld,
                   tradeStatus, cashBalanceHistory, timerRef, timers, nextId, mounted,
                   tickCount>>

(* The micro trade amount input (disabled while running) *)
SetMicroTradeAmount ==
    /\ mounted
    /\ ~isRunning
    /\ \E m \in MicroAmounts \ {microTradeAmount} : microTradeAmount' = m
    /\ last' = Did("micro")
    /\ UNCHANGED <<variant, anchorPrice, isRunning, currentPrice, cashBalance,
                   sharesHeld, tradeStatus, priceData, cashBalanceHistory,
                   timerRef, timers, nextId, mounted, tickCount>>

(* Component teardown: the cleanup of the mount effect *)
Unmount ==
    /\ mounted
    /\ mounted' = FALSE
    /\ timers' = IF timerRef # 0 THEN ClearInterval(timers, timerRef) ELSE timers
    /\ last' = Did("unmount")
    /\ UNCHANGED <<config, isRunning, currentPrice, cashBalance, sharesHeld,
                   tradeStatus, priceData, cashBalanceHistory, timerRef, nextId,
                   tickCount>>

----------------------------------------------------------------------------
(* CSV export *)

(* x.toFixed(2) of an amount of x / Unit dollars *)
ToFixed(x) ==
    LET whole == Abs(x) \div Unit
        hundredths == ((Abs(x) % Unit) * 100 + Unit \div 2) \div Unit
        units == IF hundredths = 100 THEN whole + 1 ELSE whole
        cents == IF hundredths = 100 THEN 0 ELSE hundredths
    IN  (IF x < 0 /\ (units # 0 \/ cents # 0) THEN "-" ELSE "")
        \o ToString(units) \o "."
        \o (IF cents < 10 THEN "0" ELSE "") \o ToString(cents)

CsvHeader == <<"Time", "Cash Balance", "Change", "Action", "Asset Price">>

(* A row that formats a missing price as a number *)
CsvRow_PriceAsNumber(entry) ==
    <<ToString(entry.time), ToFixed(entry.balance), ToFixed(entry.change),
      entry.action, ToFixed(entry.price * Unit)>>

(* One row of the export, before join(","): price 0 stands for no price *)
CsvRow(entry) ==
    <<ToString(entry.time), ToFixed(entry.balance), ToFixed(entry.change),
      entry.action,
      IF entry.price = 0 THEN "N/A" ELSE ToFixed(entry.price * Unit)>>

(* csvContent before join("\n"): the sequence of its lines *)
CsvContent(history) ==
    <<CsvHeader>> \o [i \in 1 .. Len(history) |-> CsvRow(history[i])]

(* An export button that is also rendered while the simulation runs *)
ExportAvailable_AlsoRunning == Len(cashBalanceHistory) > 1

(* The condition under which the export button is rendered *)
ExportAvailable == ~isRunning /\ Len(cashBalanceHistory) > 1

(* exportCashBalanceData, invoked by the export button *)
ExportCashBalanceData ==
    /\ mounted
    /\ variant = "exp"
    /\ ExportAvailable
    /\ last' = [Did("export") EXCEPT !.out = CsvContent(cashBalanceHistory)]
    /\ UNCHANGED <<config, isRunning, currentPrice, cashBalance, sharesHeld,
                   tradeStatus, priceData, cashBalanceHistory, timerRef, timers,
                   nextId, mounted, tickCount>>

Next ==
    \/ StartSimulation
    \/ StartSimulationTwice
    \/ Tick
    \/ PauseSimulation
    \/ ResetSimulation
    \/ SetAnchorPrice
    \/ SetMicroTradeAmount
    \/ ExportCashBalanceData
    \/ Unmount

Spec == Init /\ [][Next]_vars

(* Every start command is seen by the next one: one timer at a time *)
NextSingle ==
    \/ StartSimulation
    \/ Tick
    \/ PauseSimulation
    \/ ResetSimulation
    \/ SetAnchorPrice
    \/ SetMicroTradeAmount
    \/ ExportCashBalanceData
    \/ Unmount

SpecSingle == Init /\ [][NextSingle]_vars

(* Long runs, which fill the price series.  The noise is free in the first *)
(* LongHead ticks and once the series is full; in between the price drawn  *)
(* is the anchor.                                                          *)
LongStart ==
    /\ nextId <= LongTimers
    /\ Start(1)

LongPrices(c) ==
    IF tickCount < LongHead \/ Len(priceData) >= MaxPoints
    THEN NewPrices(variant, c)
    ELSE NewPrices(variant, c) \cap {c.anchorPrice}

LongTick ==
    /\ tickCount < MaxPoints - 1 + LongTail
    /\ \E c \in timers : \E newPrice \in LongPrices(c) : TickOf(c, newPrice)

NextLong ==
    \/ LongStart
    \/ LongTick
    \/ PauseSimulation
    \/ ResetSimulation
    \/ SetAnchorPrice
    \/ SetMicroTradeAmount
    \/ ExportCashBalanceData
    \/ Unmount

SpecLong == Init /\ [][NextLong]_vars

----------------------------------------------------------------------------
(* Properties *)

Ticked == last.op = "tick" /\ mounted

StatusOf(did) ==
    IF did = "BUY" THEN "BUYING" ELSE IF did = "SELL" THEN "SELLING" ELSE "IDLE"

(* C1: after every tick tradeStatus is BUYING if the tick bought, SELLING if *)
(* it sold and IDLE otherwise, and a tick that did not trade changed neither *)
(* the cash balance nor the shares.                                          *)
C1_StatusMatchesTick ==
    Ticked =>
        /\ tradeStatus = StatusOf(last.did)
        /\ last.did \notin {"BUY", "SELL"} =>
              /\ cashBalance = last.pre.cashBalance
              /\ sharesHeld = last.pre.sharesHeld

(* C2: the cash balance is never negative (one timer at a time). *)
C2_CashNeverNegative == cashBalance >= 0

(* C3: the shares held are never negative, also across pause and start. *)
C3_SharesNeverNegative == sharesHeld >= 0

(* C4: a tick with a price above the anchor sells whenever shares are held. *)
C4_SellsHeldShares ==
    (Ticked /\ last.price > last.c.anchorPrice /\ last.pre.sharesHeld > 0) =>
        /\ tradeStatus = "SELLING"
        /\ sharesHeld < last.pre.sharesHeld
        /\ cashBalance > last.pre.cashBalance

(* C5: a tick whose price equals the anchor price sets tradeStatus to IDLE *)
(* and leaves the cash balance and the shares as they were.                *)
C5_EqualPriceIsIdle ==
    (Ticked /\ last.price = anchorPrice) =>
        /\ tradeStatus = "IDLE"
        /\ cashBalance = last.pre.cashBalance
        /\ sharesHeld = last.pre.sharesHeld

C5_Witness ==
    /\ Ticked
    /\ last.price = anchorPrice
    /\ last.pre.tradeStatus = "BUYING"
    /\ last.pre.sharesHeld > 0
    /\ tradeStatus = "IDLE"

(* C6: pause changes only the running flag and tradeStatus: the current *)
(* price, the price series, the cash balance, the shares and the balance *)
(* log are what they were before the pause.                              *)
C6_PauseFreezes ==
    last.op = "pause" =>
        /\ currentPrice = last.pre.currentPrice
        /\ priceData = last.pre.priceData
        /\ cashBalance = last.pre.cashBalance
        /\ sharesHeld = last.pre.sharesHeld
        /\ cashBalanceHistory = last.pre.cashBalanceHistory

(* C7: reset leaves the simulation stopped, its timer cancelled and every *)
(* state value at its initial, anchor-derived value.                      *)
C7_ResetRestores ==
    last.op = "reset" =>
        /\ ~isRunning
        /\ \A t \in timers : t.id # timerRef
        /\ cashBalance = InitialCash * Unit
        /\ sharesHeld = 0
        /\ currentPrice = anchorPrice
        /\ tradeStatus = "IDLE"
        /\ priceData = <<[time |-> 0, price |-> anchorPrice]>>
        /\ variant = "exp" =>
              cashBalanceHistory =
                  <<[time |-> 0, balance |-> InitialCash * Unit, change |-> 0,
                     action |-> "INITIAL", price |-> 0]>>

C7_Witness ==
    /\ last.op = "reset"
    /\ last.pre.isRunning
    /\ last.pre.sharesHeld > 0
    /\ last.pre.cashBalance # InitialCash * Unit
    /\ Len(last.pre.priceData) > 2
    /\ Len(last.pre.cashBalanceHistory) > 1
    /\ anchorPrice = 200

(* C8: at most one periodic timer is live at any time. *)
C8_AtMostOneTimer == Cardinality(timers) <= 1

(* C9: while the simulation is paused, reset or torn down, every timer *)
(* that was scheduled is cancelled, so no tick can fire.               *)
C9_StoppedHasNoTimer == (~isRunning \/ ~mounted) => timers = {}

(* C10: the price series never holds more than MaxPoints points, and a tick *)
(* on a full series yields the old series without its first point, followed *)
(* by the new point.                                                        *)
C10_SlidingWindow ==
    /\ Len(priceData) <= MaxPoints
    /\ (Ticked /\ Len(last.pre.priceData) = MaxPoints) =>
          /\ Len(priceData) = MaxPoints
          /\ SubSeq(priceData, 1, MaxPoints - 1) = Tail(last.pre.priceData)
          /\ priceData[MaxPoints].price = last.price

C10_Witness ==
    /\ Ticked
    /\ Len(last.pre.priceData) = MaxPoints
    /\ last.pre.priceData[1].price # last.pre.priceData[2].price
    /\ last.price # last.c.anchorPrice

LoggingTick == Ticked /\ variant = "exp"

Logged == Len(cashBalanceHistory) = Len(last.pre.cashBalanceHistory) + 1

LastEvent(history) == history[Len(history)]

(* C11: a tick appends an event to the balance log if and only if the  *)
(* balance computed for the tick differs from the balance of the last  *)
(* logged event, also when that balance is 0.                          *)
C11_AppendIffBalanceDiffers ==
    LoggingTick =>
        /\ Logged <=>
              CurrentBalance(last.c, last.price)
                  # LastEvent(last.pre.cashBalanceHistory).balance
        /\ ~Logged => cashBalanceHistory = last.pre.cashBalanceHistory

(* C12: changing the anchor price while the simulation is stopped sets the *)
(* current price to the new anchor and the price series to the single      *)
(* point {time 0, price anchor}, and leaves the cash balance, the shares   *)
(* and the balance log unchanged.                                          *)
C12_AnchorChangeRebaselines ==
    last.op = "anchor" =>
        /\ ~isRunning
        /\ currentPrice = anchorPrice
        /\ priceData = <<[time |-> 0, price |-> anchorPrice]>>
        /\ cashBalance = last.pre.cashBalance
        /\ sharesHeld = last.pre.sharesHeld
        /\ cashBalanceHistory = last.pre.cashBalanceHistory

C12_Witness ==
    /\ last.op = "anchor"
    /\ anchorPrice = 200
    /\ last.pre.currentPrice = 100
    /\ tradeStatus = "PAUSED"
    /\ sharesHeld > 0
    /\ cashBalance # InitialCash * Unit
    /\ Len(cashBalanceHistory) > 1

(* C13: a tick that buys or sells at price p leaves cashBalance +         *)
(* sharesHeld * p as it was before the tick.                              *)
C13_TradeIsValueNeutral ==
    (Ticked /\ last.did \in {"BUY", "SELL"}) =>
        cashBalance + sharesHeld * last.price
            = last.pre.cashBalance + last.pre.sharesHeld * last.price

C13_Witness ==
    /\ Ticked
    /\ last.did = "SELL"
    /\ cashBalance > last.pre.cashBalance
    /\ sharesHeld < last.pre.sharesHeld
    /\ sharesHeld > 0

(* C14: in the exponential variant the exponent of the trend baseline of *)
(* a tick is the index of that tick: it grows by one with every tick of  *)
(* the run, as the price series does.                                    *)
C14_ExponentIsTickIndex ==
    (Ticked /\ variant = "exp" /\ Len(last.pre.priceData) < MaxPoints) =>
        last.c.timeElapsed = Len(last.pre.priceData)

(* C15: in the linear variant the new price of a tick is the price of the *)
(* preceding tick plus a noise of at most one percent of the anchor.      *)
C15_RandomWalk ==
    (Ticked /\ variant = "linear") =>
        Abs(last.price - last.pre.currentPrice) * 100 <= last.c.anchorPrice

(* C16: the export runs only from a state in which the simulation is not *)
(* running and the balance log holds more than the initial event; it is  *)
(* not available while running nor right after a reset.                 *)
C16_ExportOnlyWhenStopped ==
    /\ last.op = "export" =>
          /\ ~last.pre.isRunning
          /\ Len(last.pre.cashBalanceHistory) > 1
    /\ isRunning => ~ExportAvailable
    /\ last.op = "reset" => ~ExportAvailable

C16_Witness ==
    /\ last.op = "export"
    /\ Len(last.pre.cashBalanceHistory) > 1
    /\ tradeStatus = "PAUSED"

(* C17: the export is the header row followed by one row per balance  *)
(* event in log order, with no further line; every row has the five   *)
(* fields time, balance, change, action and price, two decimals for   *)
(* the numbers, and the price field is N/A exactly for an event       *)
(* without a price.                                                   *)
C17_CsvShape ==
    last.op = "export" =>
        LET log == last.pre.cashBalanceHistory
            csv == last.out
        IN  /\ Len(csv) = Len(log) + 1
            /\ csv[1] = <<"Time", "Cash Balance", "Change", "Action", "Asset Price">>
            /\ \A i \in 1 .. Len(log) :
                  LET row == csv[i + 1]
                  IN  /\ Len(row) = 5
                      /\ row[1] = ToString(log[i].time)
                      /\ row[4] = log[i].action
                      /\ row[5] = "N/A" <=> log[i].action = "INITIAL"
                      /\ log[i].balance = 1000 * Unit => row[2] = "1000.00"
                      /\ log[i].balance = 999 * Unit => row[2] = "999.00"
                      /\ log[i].change = 0 => row[3] = "0.00"
                      /\ log[i].change = 0 - Unit => row[3] = "-1.00"
                      /\ log[i].price = 99 => row[5] = "99.00"

C17_Witness ==
    /\ last.op = "export"
    /\ last.out = << <<"Time", "Cash Balance", "Change", "Action", "Asset Price">>,
                     <<"0", "1000.00", "0.00", "INITIAL", "N/A">>,
                     <<"1", "999.00", "-1.00", "IDLE", "99.00">> >>

(* C18: after every tick the balance of the last event of the balance log *)
(* is the cash balance.                                                   *)
C18_LogTracksCash ==
    LoggingTick => LastEvent(cashBalanceHistory).balance = cashBalance

(* C19: every event of the balance log has an action among INITIAL,     *)
(* BUYING, SELLING and IDLE, and the event a tick appends records what  *)
(* that tick did.                                                       *)
C19_EventRecordsTickAction ==
    /\ \A i \in 1 .. Len(cashBalanceHistory) :
          cashBalanceHistory[i].action \in {"INITIAL", "BUYING", "SELLING", "IDLE"}
    /\ (LoggingTick /\ Logged) =>
          LastEvent(cashBalanceHistory).action = StatusOf(last.did)

(* C20: the change of every event of the balance log but the first is its *)
(* balance minus the balance of the event before it.                      *)
C20_ChangeIsBalanceDelta ==
    \A i \in 2 .. Len(cashBalanceHistory) :
        cashBalanceHistory[i].change
            = cashBalanceHistory[i].balance - cashBalanceHistory[i - 1].balance

(* The index of the last tick within its run: the first tick of a run finds *)
(* the one-point series and has index 1.                                    *)
TickIndex == Len(last.pre.priceData)

(* C21 as stated: the event a tick appends to the balance log carries the *)
(* index of that tick as its time, so the times of the log skip the ticks *)
(* that left the balance unchanged.                                       *)
C21_TimeIsTickIndex ==
    (LoggingTick /\ Logged /\ Len(last.pre.priceData) < MaxPoints) =>
        LastEvent(cashBalanceHistory).time = TickIndex

(* C21, amended: the time of every event of the balance log is its       *)
(* position in the log, counted from 0, so the times of the log are      *)
(* consecutive whatever number of ticks left the balance unchanged.      *)
C21_TimeIsLogPosition ==
    \A i \in 1 .. Len(cashBalanceHistory) : cashBalanceHistory[i].time = i - 1

C21_Witness ==
    /\ LoggingTick
    /\ Logged
    /\ TickIndex = 3
    /\ Len(cashBalanceHistory) = 3
    /\ LastEvent(cashBalanceHistory).time = 2

(* C22: the time of every point of the price series is the index of the   *)
(* tick that appended it: the point a tick appends has the time of the    *)
(* point before it plus one, and the times of the series are strictly     *)
(* increasing, also once the window of MaxPoints points evicts points.    *)
C22_PointTimeIsTickIndex ==
    /\ \A i \in 1 .. Len(priceData) - 1 : priceData[i].time < priceData[i + 1].time
    /\ Ticked =>
          priceData[Len(priceData)].time
              = last.pre.priceData[Len(last.pre.priceData)].time + 1

====
